---- MODULE Spec2Model ----
(***************************************************************************)
(* font-buffer: claude.py and make_file.py.  Both scripts rasterize single *)
(* characters with Pillow on a 16x16 grayscale canvas and pack each pixel  *)
(* row into a 16-bit integer.  claude.py writes one C file per character,  *)
(* make_file.py collects the bitmaps of a text and writes characters.c.    *)
(*                                                                         *)
(* The state is the environment the scripts read (platform, existing font  *)
(* files, what Pillow renders), the driver's variables and the locals of   *)
(* the running cjk_char_to_c_framebuffer call.  Strings are sequences of   *)
(* code points; file names are kept as the code point they are built from. *)
(***************************************************************************)
EXTENDS Integers, Sequences, FiniteSets, TLC

VARIABLES
    prog,              \* which script runs: "claude" or "make_file"
    mode,              \* "main": the __main__ block; "call": the function is called directly
    platform,          \* platform.system()
    exists,            \* the paths for which os.path.exists is true
    corrupt,           \* existing files ImageFont.truetype cannot load
    bboxFails,         \* the characters for which draw.textbbox raises
    face,              \* what the font renders for each character: ink box and gray value
    text,              \* the text the driver iterates over
    idx,               \* position of the driver's for loop in text (1-based)
    s,                 \* make_file.py: the set of characters already seen
    lst,               \* make_file.py: the (code, bitmap) pairs collected so far
    char_files,        \* claude.py: the char_XXXX.c files written
    emitted,           \* make_file.py: <<lst>> once generate_file(lst) wrote characters.c
    printed,           \* the error reports of the top-level except clause
    fsBudget,          \* how many more font files may disappear during the run
    pc,                \* position of control
    char,              \* the argument of the running call
    font_path,         \* local of the call
    digits_font_path,  \* local of the call (make_file.py)
    font,              \* the path of the loaded font
    img,               \* the canvas: 256 gray values, row-major; <<>> before Image.new
    bbox,              \* the measured box, <<>> if none
    bboxFailed,        \* the except branch of the drawing step was taken
    draws,             \* the positions draw.text was called with
    binary_data,       \* the row list as last built
    err,               \* the exception raised by the call
    lookups,           \* font locator invocations of the call
    loads,             \* the arguments ImageFont.truetype was called with
    calls              \* every completed rasterization: character, font, pixels, bitmap

vars == <<prog, mode, platform, exists, corrupt, bboxFails, face, text, idx, s, lst,
          char_files, emitted, printed, fsBudget, pc, char, font_path,
          digits_font_path, font, img, bbox, bboxFailed, draws, binary_data, err,
          lookups, loads, calls>>

env == <<prog, mode, platform, corrupt, bboxFails, face, text>>
driver == <<idx, s, lst, char_files, emitted, printed>>
locals == <<char, font_path, digits_font_path, font, img, bbox, bboxFailed, draws,
            binary_data, err, lookups, loads>>

-----------------------------------------------------------------------------
(* Bounds of the model. *)

MaxLen == 3          \* longest text of the batch runs
MaxExtent == 17      \* largest glyph width and height (one more than the canvas)
MaxFsChanges == 1    \* font files that may disappear during a run

(* Constants of the program. *)

Size == 16           \* canvas width and height, rows of the bitmap
Background == 255    \* Image.new(..., color=255)
Threshold == 128     \* pixel_value < 128
AsciiLimit == 128    \* ord(char) < 128
FallbackX == 2       \* draw.text((2, 1), ...)
FallbackY == 1

None == "None"

Progs == {"claude", "make_file"}
Platforms == {"Windows", "Linux"}

Consola == "C:\\Windows\\Fonts\\consola.ttf"
SimsunTtc == "C:/Windows/Fonts/simsun.ttc"
SimSunTtf == "C:/Windows/Fonts/SimSun.ttf"
Simhei == "C:/Windows/Fonts/simhei.ttf"
STSong == "/System/Library/Fonts/STSong.ttc"
Liberation == "/usr/share/fonts/truetype/liberation/LiberationSerif-Regular.ttf"
DejaVu == "/usr/share/fonts/truetype/dejavu/DejaVuSerif.ttf"

AllPaths == {Consola, SimsunTtc, SimSunTtf, Simhei, STSong, Liberation, DejaVu}

(* The characters of the model: '0', U+4E2D and U+4EBA. *)
Digit0 == 48
Zhong == 20013
Ren == 20154
Chars == {Digit0, Zhong, Ren}

-----------------------------------------------------------------------------
(* The font locators. *)

fallback_paths == <<STSong, Liberation, DejaVu>>

simsun_font_paths == <<SimsunTtc, SimSunTtf, Simhei>>

consolas_font_paths_simsun_dropped == <<Consola>>

consolas_font_paths == <<Consola, SimsunTtc, SimSunTtf, Simhei>>

RECURSIVE FirstExisting(_, _)
FirstExisting(paths, ex) ==
    IF paths = <<>> THEN None
    ELSE IF Head(paths) \in ex THEN Head(paths)
    ELSE FirstExisting(Tail(paths), ex)

get_simsun_font_path(plat, ex) ==
    IF plat # "Windows" THEN FirstExisting(fallback_paths, ex)
    ELSE FirstExisting(simsun_font_paths, ex)

get_consolas_font_path(plat, ex) ==
    IF plat # "Windows" THEN FirstExisting(fallback_paths, ex)
    ELSE FirstExisting(consolas_font_paths, ex)

-----------------------------------------------------------------------------
(* Pillow: the canvas, the bounding box and the drawing of a glyph.  A     *)
(* glyph is an ink box (left, top, w, h) relative to the drawing position, *)
(* filled with one gray value.                                             *)

Pixels == 1..(Size * Size)

NewImage == [k \in Pixels |-> Background]

textbbox(g) == <<g.left, g.top, g.left + g.w, g.top + g.h>>

DrawText(image, pos, g) ==
    [k \in Pixels |->
        LET i == (k - 1) \div Size
            j == (k - 1) % Size
        IN  IF /\ pos[1] + g.left <= j
               /\ j < pos[1] + g.left + g.w
               /\ pos[2] + g.top <= i
               /\ i < pos[2] + g.top + g.h
            THEN g.shade
            ELSE image[k]]

-----------------------------------------------------------------------------
(* The centering arithmetic. *)

CenterTruncating(extent, origin) ==
    (IF Size - extent < 0 THEN 0 - ((extent - Size) \div 2) ELSE (Size - extent) \div 2)
        - origin

Center(extent, origin) == (Size - extent) \div 2 - origin

CenterOffset(b) == <<Center(b[3] - b[1], b[1]), Center(b[4] - b[2], b[2])>>

FallbackAtOrigin == <<0, 0>>

FallbackOffset == <<FallbackX, FallbackY>>

-----------------------------------------------------------------------------
(* The packing of the pixel rows. *)

Pow2(n) == 2 ^ n

(* acc | (1 << k) *)
SetBit(acc, k) == IF (acc \div Pow2(k)) % 2 = 1 THEN acc ELSE acc + Pow2(k)

BitOfBothLsb(p, j) == j

BitOfOffByOne(p, j) == IF p = "claude" THEN Size - j ELSE j + 1

BitOf(p, j) == IF p = "claude" THEN (Size - 1) - j ELSE j

IsInkInclusive(v) == v <= Threshold

IsInk(v) == v < Threshold

RECURSIVE RowLoop(_, _, _, _, _)
RowLoop(p, pixels, i, j, row_data) ==
    IF j = Size THEN row_data
    ELSE RowLoop(p, pixels, i, j + 1,
                 IF IsInk(pixels[i * Size + j + 1])
                 THEN SetBit(row_data, BitOf(p, j))
                 ELSE row_data)

RowData(p, pixels, i) == RowLoop(p, pixels, i, 0, 0)

StaleList == binary_data

EmptyList == <<>>

RECURSIVE PackLoop(_, _, _, _)
PackLoop(p, pixels, i, acc) ==
    IF i = Size THEN acc
    ELSE PackLoop(p, pixels, i + 1, Append(acc, RowData(p, pixels, i)))

Pack(p, pixels) == PackLoop(p, pixels, 0, EmptyList)

-----------------------------------------------------------------------------
(* The rasterizer, cjk_char_to_c_framebuffer, step by step. *)

Ord(c) == c[1]

RejectsOnlyEmpty(c) == Len(c) = 0

IsInvalid(c) == Len(c) # 1

UsedPath ==
    IF prog = "make_file" /\ Ord(char) < AsciiLimit THEN digits_font_path ELSE font_path

Raise(e) ==
    /\ err' = e
    /\ pc' = "raised"

CheckInput ==
    /\ pc = "check"
    /\ IF IsInvalid(char)
       THEN Raise("ValueError")
       ELSE /\ pc' = "locate"
            /\ err' = err
    /\ UNCHANGED <<env, exists, fsBudget, driver, calls, char, font_path,
                   digits_font_path, font, img, bbox, bboxFailed, draws, binary_data,
                   lookups, loads>>

LocateFont ==
    /\ pc = "locate"
    /\ font_path' = get_simsun_font_path(platform, exists)
    /\ digits_font_path' = IF prog = "make_file"
                           THEN get_consolas_font_path(platform, exists)
                           ELSE None
    /\ lookups' = IF prog = "make_file" THEN lookups + 2 ELSE lookups + 1
    /\ IF font_path' = None
       THEN Raise("FileNotFoundError")
       ELSE /\ pc' = "load"
            /\ err' = err
    /\ UNCHANGED <<env, exists, fsBudget, driver, calls, char, font, img, bbox,
                   bboxFailed, draws, binary_data, loads>>

LoadFont ==
    /\ pc = "load"
    /\ loads' = Append(loads, UsedPath)
    /\ IF UsedPath = None \/ UsedPath \notin exists \/ UsedPath \in corrupt
       THEN /\ Raise("Exception")
            /\ font' = font
       ELSE /\ font' = UsedPath
            /\ pc' = "canvas"
            /\ err' = err
    /\ UNCHANGED <<env, exists, fsBudget, driver, calls, char, font_path,
                   digits_font_path, img, bbox, bboxFailed, draws, binary_data, lookups>>

NewCanvas ==
    /\ pc = "canvas"
    /\ img' = NewImage
    /\ pc' = "draw"
    /\ UNCHANGED <<env, exists, fsBudget, driver, calls, char, font_path,
                   digits_font_path, font, bbox, bboxFailed, draws, binary_data, err,
                   lookups, loads>>

(* The try block: measure, center, draw. *)
DrawCentered ==
    /\ pc = "draw"
    /\ Ord(char) \notin bboxFails
    /\ bbox' = textbbox(face[Ord(char)])
    /\ draws' = Append(draws, CenterOffset(bbox'))
    /\ img' = DrawText(img, CenterOffset(bbox'), face[Ord(char)])
    /\ pc' = "pack"
    /\ UNCHANGED <<env, exists, fsBudget, driver, calls, char, font_path,
                   digits_font_path, font, bboxFailed, binary_data, err, lookups, loads>>

(* The except block: textbbox raised, draw at the default position. *)
DrawFallback ==
    /\ pc = "draw"
    /\ Ord(char) \in bboxFails
    /\ bboxFailed' = TRUE
    /\ draws' = Append(draws, FallbackOffset)
    /\ img' = DrawText(img, FallbackOffset, face[Ord(char)])
    /\ pc' = "pack"
    /\ UNCHANGED <<env, exists, fsBudget, driver, calls, char, font_path,
                   digits_font_path, font, bbox, binary_data, err, lookups, loads>>

PackRows ==
    /\ pc = "pack"
    /\ binary_data' = Pack(prog, img)
    /\ calls' = Append(calls, [char |-> Ord(char), font |-> font, exists |-> exists,
                               pixels |-> img, bitmap |-> binary_data'])
    /\ pc' = "return"
    /\ UNCHANGED <<env, exists, fsBudget, driver, char, font_path, digits_font_path,
                   font, img, bbox, bboxFailed, draws, err, lookups, loads>>

-----------------------------------------------------------------------------
(* The drivers: the __main__ blocks, handle_character and generate_file.   *)

NeverSeen(c, seen) == FALSE

AlreadySeen(c, seen) == c \in seen

(* Entering the function: fresh locals. *)
Enter(c) ==
    /\ char' = c
    /\ font_path' = None
    /\ digits_font_path' = None
    /\ font' = None
    /\ img' = <<>>
    /\ bbox' = <<>>
    /\ bboxFailed' = FALSE
    /\ draws' = <<>>
    /\ err' = None
    /\ lookups' = 0
    /\ loads' = <<>>
    /\ pc' = "check"

(* for char in text: cjk_char_to_c_framebuffer(char) *)
LoopCall ==
    /\ pc = "loop"
    /\ idx <= Len(text)
    /\ ~(prog = "make_file" /\ AlreadySeen(text[idx], s))
    /\ s' = IF prog = "make_file" THEN s \cup {text[idx]} ELSE s
    /\ Enter(<<text[idx]>>)
    /\ UNCHANGED <<env, exists, fsBudget, idx, lst, char_files, emitted, printed,
                   binary_data, calls>>

(* make_file.py: if char in s: continue *)
LoopSkip ==
    /\ pc = "loop"
    /\ idx <= Len(text)
    /\ prog = "make_file"
    /\ AlreadySeen(text[idx], s)
    /\ idx' = idx + 1
    /\ UNCHANGED <<env, exists, fsBudget, s, lst, char_files, emitted, printed, pc,
                   locals, calls>>

(* The rest of the loop body after the call returned. *)
AfterReturn ==
    /\ pc = "return"
    /\ IF mode = "call"
       THEN /\ pc' = "returned"
            /\ UNCHANGED <<idx, lst, char_files>>
       ELSE /\ pc' = "loop"
            /\ idx' = idx + 1
            /\ IF prog = "claude"
               THEN /\ char_files' = char_files \cup {Ord(char)}
                    /\ lst' = lst
               ELSE /\ lst' = Append(lst, <<Ord(char), binary_data>>)
                    /\ char_files' = char_files
    /\ UNCHANGED <<env, exists, fsBudget, s, emitted, printed, locals, calls>>

(* The loop is over: make_file.py writes characters.c. *)
LoopEnd ==
    /\ pc = "loop"
    /\ idx > Len(text)
    /\ emitted' = IF prog = "make_file" THEN <<lst>> ELSE emitted
    /\ pc' = "done"
    /\ UNCHANGED <<env, exists, fsBudget, idx, s, lst, char_files, printed, locals,
                   calls>>

ContinueAfterError ==
    /\ printed' = Append(printed, err)
    /\ idx' = idx + 1
    /\ pc' = "loop"

ReportAndStop ==
    /\ printed' = Append(printed, err)
    /\ idx' = idx
    /\ pc' = "stopped"

(* except Exception as e: print(...) ; a direct caller gets the exception. *)
HandleError ==
    /\ pc = "raised"
    /\ IF mode = "call"
       THEN /\ pc' = "escaped"
            /\ UNCHANGED <<printed, idx>>
       ELSE ReportAndStop
    /\ UNCHANGED <<env, exists, fsBudget, s, lst, char_files, emitted, locals, calls>>

(* The environment: a font file disappears between two characters. *)
FsRemove ==
    /\ pc = "loop"
    /\ idx > 1
    /\ idx <= Len(text)
    /\ fsBudget > 0
    /\ \E p \in exists : exists' = exists \ {p}
    /\ fsBudget' = fsBudget - 1
    /\ UNCHANGED <<env, driver, pc, locals, calls>>

Next ==
    \/ CheckInput
    \/ LocateFont
    \/ LoadFont
    \/ NewCanvas
    \/ DrawCentered
    \/ DrawFallback
    \/ PackRows
    \/ LoopCall
    \/ LoopSkip
    \/ AfterReturn
    \/ LoopEnd
    \/ HandleError
    \/ FsRemove

-----------------------------------------------------------------------------
(* Initial states. *)

Glyph(l, t, w, h, v) == [left |-> l, top |-> t, w |-> w, h |-> h, shade |-> v]

(* One glyph per character, as a serif font at size 14 would measure them. *)
DefaultFace ==
    (Digit0 :> Glyph(1, 3, 7, 10, 0)) @@ (Zhong :> Glyph(0, 2, 13, 13, 64))
        @@ (Ren :> Glyph(1, 2, 14, 13, 127))

Origins == {<<0, 0>>, <<-1, 3>>, <<2, 1>>}

Shades == {0, Threshold - 1, Threshold, Background}

GlyphSet ==
    {Glyph(o[1], o[2], w, h, v) : o \in Origins, w \in 0..MaxExtent, h \in 0..MaxExtent,
                                  v \in Shades}

RECURSIVE SeqsUpTo(_, _)
SeqsUpTo(S, n) ==
    IF n = 0 THEN {<<>>}
    ELSE LET shorter == SeqsUpTo(S, n - 1)
         IN  shorter \cup {Append(q, c) : q \in {r \in shorter : Len(r) = n - 1}, c \in S}

(* The state when the script, or a direct call, starts. *)
Start(m, arg) ==
    /\ mode = m
    /\ idx = 1
    /\ s = {}
    /\ lst = <<>>
    /\ char_files = {}
    /\ emitted = <<>>
    /\ printed = <<>>
    /\ pc = IF m = "call" THEN "check" ELSE "loop"
    /\ char = arg
    /\ font_path = None
    /\ digits_font_path = None
    /\ font = None
    /\ img = <<>>
    /\ bbox = <<>>
    /\ bboxFailed = FALSE
    /\ draws = <<>>
    /\ binary_data = <<>>
    /\ err = None
    /\ lookups = 0
    /\ loads = <<>>
    /\ calls = <<>>

(* Direct calls with zero, one or two characters. *)
Args == SeqsUpTo({Digit0, Zhong}, 2)

StartAny ==
    \/ /\ text \in {<<Zhong, Digit0, Zhong, Ren>>, <<Digit0, Digit0>>}
       /\ Start("main", <<>>)
    \/ /\ text = <<>>
       /\ \E a \in Args : Start("call", a)

(* A few environments in which every step of both scripts happens. *)
InitBase ==
    /\ prog \in Progs
    /\ platform \in Platforms
    /\ exists \in {{}, {Consola, Simhei, DejaVu}}
    /\ corrupt \in {{}, {Consola}, {DejaVu}}
    /\ bboxFails \in {{}, {Zhong}}
    /\ face = DefaultFace
    /\ fsBudget = MaxFsChanges
    /\ StartAny

(* Every platform and every set of existing font files. *)
InitFonts ==
    /\ prog \in Progs
    /\ platform \in Platforms
    /\ exists \in SUBSET AllPaths
    /\ corrupt = {}
    /\ bboxFails = {}
    /\ face = DefaultFace
    /\ fsBudget = 0
    /\ \/ /\ text = <<>>
          /\ \E c \in {Digit0, Zhong} : Start("call", <<c>>)
       \/ /\ text = <<Zhong, Digit0>>
          /\ Start("main", <<>>)

(* Every glyph of the family, centered and at the fallback position. *)
InitRaster ==
    /\ prog \in Progs
    /\ platform = "Linux"
    /\ exists = {DejaVu}
    /\ corrupt = {}
    /\ bboxFails \in {{}, Chars}
    /\ \E g \in GlyphSet : face = [c \in Chars |-> g]
    /\ fsBudget = 0
    /\ text = <<>>
    /\ Start("call", <<Zhong>>)

(* Every text of up to MaxLen characters. *)
InitBatch ==
    /\ prog \in Progs
    /\ platform = "Windows"
    /\ exists \in {{Consola, SimsunTtc}, {Simhei}}
    /\ corrupt \in {{}, {Consola}}
    /\ bboxFails \in {{}, {Ren}}
    /\ face = DefaultFace
    /\ fsBudget = MaxFsChanges
    /\ text \in SeqsUpTo(Chars, MaxLen)
    /\ Start("main", <<>>)

Spec == (InitBase \/ InitFonts \/ InitRaster \/ InitBatch) /\ [][Next]_vars

SpecFonts == (InitBase \/ InitFonts) /\ [][Next]_vars

SpecRaster == (InitBase \/ InitRaster) /\ [][Next]_vars

SpecBatch == (InitBase \/ InitBatch) /\ [][Next]_vars

-----------------------------------------------------------------------------
(* Helpers of the properties. *)

BitSet(v, b) == (v \div (2 ^ b)) % 2 = 1

RECURSIVE ReverseBits(_, _)
ReverseBits(v, n) == IF n = 0 THEN 0 ELSE (v % 2) * (2 ^ (n - 1)) + ReverseBits(v \div 2, n - 1)

OtherProg == IF prog = "claude" THEN "make_file" ELSE "claude"

(* The characters of t in the order of their first occurrence. *)
Firsts(t) ==
    LET F[n \in 0..Len(t)] ==
            IF n = 0 THEN <<>>
            ELSE IF \E k \in 1..(n - 1) : t[k] = t[n] THEN F[n - 1]
            ELSE Append(F[n - 1], t[n])
    IN  F[Len(t)]

Codes(pairs) == [k \in DOMAIN pairs |-> pairs[k][1]]

CallChars == [k \in DOMAIN calls |-> calls[k].char]

Failed == pc \in {"raised", "escaped", "stopped"}

-----------------------------------------------------------------------------
(* C1: every bitmap the rasterizer builds, on the centered path and on the *)
(* fallback path, in both scripts, has exactly 16 entries, each of them an *)
(* integer in 0..65535.                                                    *)
C1_BitmapShape ==
    /\ \A k \in DOMAIN calls :
          /\ Len(calls[k].bitmap) = 16
          /\ \A i \in 1..16 : calls[k].bitmap[i] \in 0..65535
    /\ pc \in {"return", "returned"} =>
          /\ Len(binary_data) = 16
          /\ \A i \in 1..16 : binary_data[i] \in 0..65535

C1_Witness ==
    /\ pc = "return"
    /\ bboxFailed
    /\ \E i \in 1..16 : binary_data[i] > 255
    /\ \E k \in Pixels : img[k] = 0

(* C2: a direct call whose argument has not exactly one character raises   *)
(* ValueError before anything else is done: no font lookup, no font load,  *)
(* no canvas, no drawing and no bitmap, whatever font files exist.         *)
C2_InvalidInputFailsFirst ==
    (mode = "call" /\ Len(char) # 1 /\ pc # "check") =>
        /\ err = "ValueError"
        /\ pc \in {"raised", "escaped"}
        /\ lookups = 0
        /\ loads = <<>>
        /\ font = None
        /\ img = <<>>
        /\ draws = <<>>
        /\ binary_data = <<>>
        /\ calls = <<>>

C2_Witness ==
    /\ mode = "call"
    /\ Len(char) = 2
    /\ pc = "escaped"
    /\ err = "ValueError"
    /\ exists # {}

(* C3: when make_file.py reaches generate_file, the list it hands over has *)
(* each distinct character of the text exactly once, in the order of first *)
(* occurrence, and each of them was rasterized exactly once.               *)
C3_FirstOccurrenceOnce ==
    (prog = "make_file" /\ emitted # <<>>) =>
        /\ Codes(emitted[1]) = Firsts(text)
        /\ CallChars = Firsts(text)
        /\ \A a, b \in DOMAIN emitted[1] : a # b => emitted[1][a][1] # emitted[1][b][1]

C3_Witness ==
    /\ prog = "make_file"
    /\ emitted # <<>>
    /\ Len(emitted[1]) = 2
    /\ Len(text) = 3
    /\ text[1] = text[3]

(* C4: ImageFont.truetype is never called with an absent path: whenever    *)
(* the locator of the font the character is rendered with returns None,    *)
(* the call raises FileNotFoundError, for characters below 128 as well as  *)
(* for the others, on every platform and for every set of existing files.  *)
C4_AbsentFontNotFound ==
    /\ \A k \in DOMAIN loads : loads[k] # None
    /\ (lookups > 0 /\ UsedPath = None) =>
          /\ err = "FileNotFoundError"
          /\ Failed
          /\ loads = <<>>
          /\ img = <<>>

C4_Witness ==
    /\ prog = "make_file"
    /\ platform = "Windows"
    /\ Len(char) = 1
    /\ char[1] < 128
    /\ lookups = 2
    /\ digits_font_path = None
    /\ err = "FileNotFoundError"
    /\ exists # {}

C6_UniformCanvas ==
    pc = "return" =>
        /\ (\A k \in Pixels : img[k] >= 128) => binary_data = [i \in 1..16 |-> 0]
        /\ (\A k \in Pixels : img[k] < 128) => binary_data = [i \in 1..16 |-> 65535]

C6_Witness ==
    /\ pc = "return"
    /\ \A k \in Pixels : img[k] = 127
    /\ binary_data = [i \in 1..16 |-> 65535]

Centered(extent, origin, at) ==
    LET lead == at + origin
        trail == 16 - (lead + extent)
    IN  /\ 2 * lead <= 16 - extent
        /\ 16 - extent <= 2 * lead + 1
        /\ extent \in 0..16 =>
              /\ 0 <= lead
              /\ lead + extent <= 16
              /\ trail - lead \in {0, 1}

C8_CenteringOffset ==
    bbox # <<>> =>
        /\ Len(draws) = 1
        /\ Centered(bbox[3] - bbox[1], bbox[1], draws[1][1])
        /\ Centered(bbox[4] - bbox[2], bbox[2], draws[1][2])

C8_Witness ==
    /\ pc = "pack"
    /\ bbox = <<-1, 3, 4, 19>>
    /\ draws = <<<<6, -3>>>>

(* C9: when textbbox raises, the call does not fail: the character is      *)
(* drawn once, at (2, 1), and the call goes on to return a bitmap of 16    *)
(* entries; no exception comes out of it.                                  *)
C9_FallbackNotFatal ==
    /\ (Len(char) = 1 /\ char[1] \in bboxFails /\ pc \in {"pack", "return", "returned"})
          => bboxFailed
    /\ bboxFailed =>
          /\ draws = <<<<2, 1>>>>
          /\ bbox = <<>>
          /\ err = None
          /\ ~Failed
          /\ pc # "pack" =>
                /\ Len(binary_data) = 16
                /\ calls # <<>>
                /\ calls[Len(calls)].char = char[1]
                /\ calls[Len(calls)].bitmap = binary_data

C9_Witness ==
    /\ bboxFailed
    /\ pc = "returned"
    /\ face[char[1]].left = 0
    /\ face[char[1]].top = 0
    /\ face[char[1]].w = 3
    /\ face[char[1]].shade = 0
    /\ binary_data[2] # 0
    /\ binary_data[1] = 0

(* C10: when a rasterization of the batch fails, the driver reports the    *)
(* error once and stops: nothing happens afterwards, characters.c is not   *)
(* written, and every character before the failing one was processed.      *)
C10_Stopped ==
    printed # <<>> =>
        /\ pc = "stopped"
        /\ printed = <<err>>
        /\ err \in {"ValueError", "FileNotFoundError", "Exception"}
        /\ emitted = <<>>
        /\ idx \in 1..Len(text)
        /\ char = <<text[idx]>>
        /\ prog = "claude" =>
              /\ char_files = {text[k] : k \in 1..(idx - 1)}
              /\ CallChars = SubSeq(text, 1, idx - 1)
        /\ prog = "make_file" =>
              /\ Codes(lst) = Firsts(SubSeq(text, 1, idx - 1))
              /\ CallChars = Codes(lst)

C10_ErrorStopsBatch == [](C10_Stopped) /\ [][printed = <<>>]_vars

C10_Witness ==
    /\ pc = "stopped"
    /\ prog = "make_file"
    /\ err = "Exception"
    /\ idx = 3
    /\ Len(lst) = 2

====
